---------------------------- MODULE Spec2Model ----------------------------
(***************************************************************************)
(* Fitness-tracker calculator of src/homework.py: the Training hierarchy   *)
(* (Training, Running, SportsWalking, Swimming), InfoMessage and its       *)
(* rendering, the read_package factory and the __main__ driver loop.       *)
(*                                                                         *)
(* Numbers.  Python computes with binary floating point; here a number is  *)
(* an exact rational <<n, d>> in lowest terms with d > 0, and 0.65, 1.38,  *)
(* 0.035, 0.029, 1.1 are the decimal fractions the source writes.  The     *)
(* '.3f' conversion is modelled on that exact value: round to the nearest  *)
(* thousandth, an exact tie to the even digit, the sign kept.              *)
(*                                                                         *)
(* Text.  The module's strings are ASCII, so the Russian literals of the   *)
(* source are transliterated letter by letter.                             *)
(***************************************************************************)
EXTENDS Integers, Sequences, FiniteSets, TLC

VARIABLES
    training,   \* the Training object under use, NoTraining before construction
    made,       \* the call that constructed training (its code and data)
    call,       \* the latest operation: its name and, for read_package, its arguments
    ret,        \* what the latest operation returned or raised
    info,       \* the InfoMessage the latest successful show_training_info returned
    text,       \* the string the latest get_message returned
    shown,      \* successful show_training_info calls on the object so far
    packages,   \* driver: the list of (workout_type, data) pairs
    idx,        \* driver: 1-based position of the loop in packages
    out,        \* driver: the lines printed so far
    status      \* driver: "idle", "running", "exit0" or "crashed"

vars == <<training, made, call, ret, info, text, shown, packages, idx, out, status>>

---------------------------------------------------------------------------
(* Exact rational arithmetic standing for Python's float arithmetic.       *)

Abs(n) == IF n < 0 THEN -n ELSE n

RECURSIVE GCD(_, _)
GCD(a, b) == IF b = 0 THEN a ELSE GCD(b, a % b)

\* n/d in lowest terms with a positive denominator (d # 0).
Rat(n, d) ==
    LET g == GCD(Abs(n), Abs(d))
        s == IF d < 0 THEN -1 ELSE 1
    IN  <<(s * n) \div g, (s * d) \div g>>

Num(n) == <<n, 1>>
Zero == Num(0)

Add(a, b) == Rat(a[1] * b[2] + b[1] * a[2], a[2] * b[2])
Sub(a, b) == Rat(a[1] * b[2] - b[1] * a[2], a[2] * b[2])
Mul(a, b) == LET x == Rat(a[1], b[2])
                 y == Rat(b[1], a[2])
             IN  <<x[1] * y[1], x[2] * y[2]>>
\* a / b for b # 0; Python raises ZeroDivisionError for b = 0 (see the callers).
Div(a, b) == Mul(a, Rat(b[2], b[1]))
\* a // b for b # 0: the floor of the quotient, as a number.
FloorDiv(a, b) == LET q == Div(a, b) IN Num(q[1] \div q[2])
\* a ** 2
Square(a) == Mul(a, a)
Less(a, b) == a[1] * b[2] < b[1] * a[2]

---------------------------------------------------------------------------
(* What a call gives back: a value, or the exception it raised.            *)

Ok(v) == [err |-> "none", msg |-> "", val |-> v]
Raise(e, m) == [err |-> e, msg |-> m, val |-> Zero]

\* Whether string t occurs in string s.
Contains(s, t) ==
    \E i \in 1..(Len(s) - Len(t) + 1) : SubSeq(s, i, i + Len(t) - 1) = t

---------------------------------------------------------------------------
(* InfoMessage and the '.3f' conversion of str.format.                     *)

Pad3(k) ==
    IF k < 10 THEN "00" \o ToString(k)
    ELSE IF k < 100 THEN "0" \o ToString(k)
    ELSE ToString(k)

\* format(x, '.3f'): the integer part and three fraction digits by long
\* division, then rounded to the nearest thousandth, a tie to the even digit;
\* a negative x keeps its sign even when it rounds to zero.
Fmt3(x) ==
    LET a == Abs(x[1])
        r0 == a % x[2]
        r1 == (r0 * 10) % x[2]
        r2 == (r1 * 10) % x[2]
        r3 == (r2 * 10) % x[2]
        q == (a \div x[2]) * 1000 + ((r0 * 10) \div x[2]) * 100
                 + ((r1 * 10) \div x[2]) * 10 + ((r2 * 10) \div x[2])
        k == IF 2 * r3 > x[2] THEN q + 1
             ELSE IF 2 * r3 = x[2] THEN q + (q % 2)
             ELSE q
    IN  (IF x[1] < 0 THEN "-" ELSE "")
            \o ToString(k \div 1000) \o "." \o Pad3(k % 1000)

InfoMessage(training_type, duration, distance, speed, calories) ==
    [training_type |-> training_type, duration |-> duration,
     distance |-> distance, speed |-> speed, calories |-> calories]

NoInfo == InfoMessage("", Zero, Zero, Zero, Zero)

\* InfoMessage.get_message: MESSAGE_TEXT.format(**asdict(self)).
get_message(m) ==
    "Tip trenirovki: " \o m.training_type
        \o "; Dlitelnost: " \o Fmt3(m.duration) \o " ch."
        \o "; Distanciya: " \o Fmt3(m.distance) \o " km"
        \o "; Sr. skorost: " \o Fmt3(m.speed) \o " km/ch"
        \o "; Potracheno kkal: " \o Fmt3(m.calories) \o "."

---------------------------------------------------------------------------
(* The class constants.                                                    *)

M_IN_KM == 1000
COEFF_MIN_TO_HOURS == 60
Running_SPEED_MULTIPLIER == 18
Running_SPEED_SUBTRACTOR == 20
WEIGHT_COEFFICIENT == Rat(35, 1000)
SPEED_WEIGHT_COEFFICIENT == Rat(29, 1000)
SPEED_ADD_COEFFICIENT == Rat(11, 10)
Swimming_SPEED_MULTIPLIER == 2

\* self.LEN_STEP: Swimming overrides the attribute, the others inherit it.
LEN_STEP(cls) == IF cls = "Swimming" THEN Rat(138, 100) ELSE Rat(65, 100)

\* NOT_IMPLEM_ERROR_MESSAGE.format(class name, method name)
NOT_IMPLEM_ERROR_MESSAGE(cls, method) ==
    "v klasse " \o cls \o " neobhodimo pereopredelit metod " \o method

---------------------------------------------------------------------------
(* The Training hierarchy.  An object is [cls, attrs]: its class name and  *)
(* the attributes __init__ set.                                            *)

NoTraining == [cls |-> "None", attrs |-> [a \in {} |-> Zero]]

\* Mutant: SportsWalking and Swimming pass weight and duration on in the
\* wrong order.
InitParams_Mut(cls) ==
    IF cls = "SportsWalking" THEN <<"action", "weight", "duration", "height">>
    ELSE IF cls = "Swimming"
        THEN <<"action", "weight", "duration", "length_pool", "count_pool">>
    ELSE <<"action", "duration", "weight">>

\* The parameters of the __init__ each class resolves to, self left out.
InitParams(cls) ==
    IF cls = "SportsWalking" THEN <<"action", "duration", "weight", "height">>
    ELSE IF cls = "Swimming"
        THEN <<"action", "duration", "weight", "length_pool", "count_pool">>
    ELSE <<"action", "duration", "weight">>

\* Mutant: surplus positional arguments are dropped instead of refused.
Construct_Mut(cls, data) ==
    LET params == InitParams(cls)
    IN  IF Len(data) < Len(params)
        THEN Raise("TypeError", "__init__() positional arguments")
        ELSE Ok([cls |-> cls,
                 attrs |-> [a \in {params[i] : i \in 1..Len(params)} |->
                              data[CHOOSE i \in 1..Len(params) : params[i] = a]]])

\* cls(*data): the positional arguments bound to the parameters in order;
\* a call with too few or too many raises TypeError and builds nothing.
Construct(cls, data) ==
    LET params == InitParams(cls)
    IN  IF Len(data) # Len(params)
        THEN Raise("TypeError", "__init__() positional arguments")
        ELSE Ok([cls |-> cls,
                 attrs |-> [a \in {params[i] : i \in 1..Len(params)} |->
                              data[CHOOSE i \in 1..Len(params) : params[i] = a]]])

get_distance(self) ==
    Ok(Div(Mul(self.attrs.action, LEN_STEP(self.cls)), Num(M_IN_KM)))

Training_get_mean_speed(self) ==
    IF self.attrs.duration = Zero
    THEN Raise("ZeroDivisionError", "division by zero")
    ELSE Ok(Div(get_distance(self).val, self.attrs.duration))

Swimming_get_mean_speed(self) ==
    IF self.attrs.duration = Zero
    THEN Raise("ZeroDivisionError", "division by zero")
    ELSE Ok(Div(Div(Mul(self.attrs.length_pool, self.attrs.count_pool),
                    Num(M_IN_KM)),
                self.attrs.duration))

\* Mutant: Swimming's override is missing, every class uses the base method.
get_mean_speed_Mut(self) == Training_get_mean_speed(self)

get_mean_speed(self) ==
    IF self.cls = "Swimming" THEN Swimming_get_mean_speed(self)
    ELSE Training_get_mean_speed(self)

\* Mutant: the base method returns 0 instead of raising.
Training_get_spent_calories_Mut(self) == Ok(Zero)

Training_get_spent_calories(self) ==
    Raise("NotImplementedError",
          NOT_IMPLEM_ERROR_MESSAGE(self.cls, "get_spent_calories"))

\* Mutant: the subtractor added instead of subtracted.
Running_get_spent_calories_Mut(self) ==
    LET s == get_mean_speed(self)
    IN  IF s.err # "none" THEN s
        ELSE Ok(Mul(Mul(Div(Mul(Add(Mul(Num(Running_SPEED_MULTIPLIER), s.val),
                                    Num(Running_SPEED_SUBTRACTOR)),
                                self.attrs.weight),
                            Num(M_IN_KM)),
                        self.attrs.duration),
                    Num(COEFF_MIN_TO_HOURS)))

Running_get_spent_calories(self) ==
    LET s == get_mean_speed(self)
    IN  IF s.err # "none" THEN s
        ELSE Ok(Mul(Mul(Div(Mul(Sub(Mul(Num(Running_SPEED_MULTIPLIER), s.val),
                                    Num(Running_SPEED_SUBTRACTOR)),
                                self.attrs.weight),
                            Num(M_IN_KM)),
                        self.attrs.duration),
                    Num(COEFF_MIN_TO_HOURS)))

\* Mutant: true division where the source divides with //.
SportsWalking_get_spent_calories_Mut(self) ==
    LET s == get_mean_speed(self)
    IN  IF s.err # "none" THEN s
        ELSE IF self.attrs.height = Zero
        THEN Raise("ZeroDivisionError", "division by zero")
        ELSE Ok(Mul(Mul(Add(Mul(WEIGHT_COEFFICIENT, self.attrs.weight),
                            Mul(Mul(Div(Square(s.val), self.attrs.height),
                                    SPEED_WEIGHT_COEFFICIENT),
                                self.attrs.weight)),
                        self.attrs.duration),
                    Num(COEFF_MIN_TO_HOURS)))

SportsWalking_get_spent_calories(self) ==
    LET s == get_mean_speed(self)
    IN  IF s.err # "none" THEN s
        ELSE IF self.attrs.height = Zero
        THEN Raise("ZeroDivisionError", "floor division by zero")
        ELSE Ok(Mul(Mul(Add(Mul(WEIGHT_COEFFICIENT, self.attrs.weight),
                            Mul(Mul(FloorDiv(Square(s.val), self.attrs.height),
                                    SPEED_WEIGHT_COEFFICIENT),
                                self.attrs.weight)),
                        self.attrs.duration),
                    Num(COEFF_MIN_TO_HOURS)))

Swimming_get_spent_calories(self) ==
    LET s == get_mean_speed(self)
    IN  IF s.err # "none" THEN s
        ELSE Ok(Mul(Mul(Add(s.val, SPEED_ADD_COEFFICIENT),
                        Num(Swimming_SPEED_MULTIPLIER)),
                    self.attrs.weight))

get_spent_calories(self) ==
    IF self.cls = "Running" THEN Running_get_spent_calories(self)
    ELSE IF self.cls = "SportsWalking" THEN SportsWalking_get_spent_calories(self)
    ELSE IF self.cls = "Swimming" THEN Swimming_get_spent_calories(self)
    ELSE Training_get_spent_calories(self)

\* The arguments of InfoMessage(...) are evaluated left to right; the first
\* exception leaves the call and no InfoMessage is built.
show_training_info(self) ==
    LET d == get_distance(self)
        s == get_mean_speed(self)
        c == get_spent_calories(self)
    IN  IF s.err # "none" THEN s
        ELSE IF c.err # "none" THEN c
        ELSE Ok(InfoMessage(self.cls, self.attrs.duration, d.val, s.val, c.val))

---------------------------------------------------------------------------
(* The factory.                                                            *)

TRAINING_TYPES == [SWM |-> "Swimming", RUN |-> "Running", WLK |-> "SportsWalking"]

\* Mutant: an unknown code falls back to the base class instead of raising.
read_package_Mut(workout_type, data) ==
    Construct(IF workout_type \in DOMAIN TRAINING_TYPES
                  THEN TRAINING_TYPES[workout_type] ELSE "Training",
              data)

read_package(workout_type, data) ==
    IF workout_type \notin DOMAIN TRAINING_TYPES
    THEN Raise("ValueError",
               "Zaprashivaemyj tip trenirovki otsutstvuet v BD fitness-trekera")
    ELSE Construct(TRAINING_TYPES[workout_type], data)

\* main(training): the line print() writes, or the exception that leaves main.
main(t) ==
    LET m == show_training_info(t)
    IN  IF m.err # "none" THEN m ELSE Ok(get_message(m.val))

---------------------------------------------------------------------------
(* Inputs.  A reading is a code and a list of numbers; position i of the   *)
(* list draws from DataVals(i): values of the sample readings of the       *)
(* source, zeros, and a few values around them.                            *)

MaxData == 6        \* longest data list tried (one more than any __init__ takes)
MaxDuration == 2    \* durations tried are 0..MaxDuration hours
MaxShown == 2       \* show_training_info calls counted per object
MaxPackages == 3    \* longest driver list tried

Codes == {"SWM", "RUN", "WLK", "XYZ", "run"}

DataVals(i) ==
    IF i = 1 THEN {Num(0), Num(1000), Num(9000), Num(15000)}
    ELSE IF i = 2 THEN {Num(h) : h \in 0..MaxDuration}
    ELSE IF i = 3 THEN {Num(75), Num(80)}
    ELSE IF i = 4 THEN {Num(0), Num(25), Num(50), Num(180)}
    ELSE IF i = 5 THEN {Num(0), Num(40)}
    ELSE {Num(1)}

\* The data lists of length n, position i drawn from DataVals(i).
RECURSIVE DataListsOfLen(_)
DataListsOfLen(n) ==
    IF n = 0 THEN {<<>>}
    ELSE {Append(d, v) : d \in DataListsOfLen(n - 1), v \in DataVals(n)}

DataLists == UNION {DataListsOfLen(n) : n \in 0..MaxData}

\* A list of integers as a data list.
RECURSIVE Nums(_)
Nums(ints) == IF ints = <<>> THEN <<>> ELSE <<Num(Head(ints))>> \o Nums(Tail(ints))

Pkg(code, ints) == [code |-> code, data |-> Nums(ints)]

\* The packages list of the __main__ block.
SamplePackages ==
    <<Pkg("SWM", <<720, 1, 80, 25, 40>>),
      Pkg("RUN", <<15000, 1, 75>>),
      Pkg("WLK", <<9000, 1, 75, 180>>)>>

\* Entries a driver list is made of: the three samples and four that fail.
PackageEntries ==
    {SamplePackages[i] : i \in 1..3}
        \cup {Pkg("XYZ", <<1, 1, 1>>), Pkg("RUN", <<1, 1>>),
              Pkg("RUN", <<15000, 0, 75>>), Pkg("WLK", <<9000, 1, 75, 0>>)}

NoCall == [op |-> "none", code |-> "", data |-> <<>>]
Method(op) == [op |-> op, code |-> "", data |-> <<>>]

---------------------------------------------------------------------------
(* One object and the calls made on it.  Objects share no state, so a      *)
(* behaviour follows a single construction.                                *)

Init ==
    /\ training = NoTraining
    /\ made = NoCall
    /\ call = NoCall
    /\ ret = Ok(Zero)
    /\ info = NoInfo
    /\ text = ""
    /\ shown = 0
    /\ packages = <<>>
    /\ idx = 1
    /\ out = <<>>
    /\ status = "idle"

\* training = read_package(workout_type, data)
ReadPackage(workout_type, data) ==
    /\ status = "idle"
    /\ call = NoCall
    /\ call' = [op |-> "read_package", code |-> workout_type, data |-> data]
    /\ LET r == read_package(workout_type, data)
       IN  /\ ret' = r
           /\ training' = IF r.err = "none" THEN r.val ELSE training
           /\ made' = IF r.err = "none" THEN call' ELSE made
    /\ UNCHANGED <<info, text, shown, packages, idx, out, status>>

\* training = Training(*data): the base class constructed directly.
NewTraining(data) ==
    /\ status = "idle"
    /\ call = NoCall
    /\ call' = [op |-> "Training", code |-> "", data |-> data]
    /\ LET r == Construct("Training", data)
       IN  /\ ret' = r
           /\ training' = IF r.err = "none" THEN r.val ELSE training
           /\ made' = IF r.err = "none" THEN call' ELSE made
    /\ UNCHANGED <<info, text, shown, packages, idx, out, status>>

\* Mutant: get_distance consumes the step count it has read.
GetDistance_Mut ==
    /\ status = "idle"
    /\ training # NoTraining
    /\ ret' = get_distance(training)
    /\ call' = Method("get_distance")
    /\ training' = [training EXCEPT !.attrs.action = Zero]
    /\ UNCHANGED <<made, info, text, shown, packages, idx, out, status>>

GetDistance ==
    /\ status = "idle"
    /\ training # NoTraining
    /\ ret' = get_distance(training)
    /\ call' = Method("get_distance")
    /\ UNCHANGED <<training, made, info, text, shown, packages, idx, out, status>>

GetMeanSpeed ==
    /\ status = "idle"
    /\ training # NoTraining
    /\ ret' = get_mean_speed(training)
    /\ call' = Method("get_mean_speed")
    /\ UNCHANGED <<training, made, info, text, shown, packages, idx, out, status>>

GetSpentCalories ==
    /\ status = "idle"
    /\ training # NoTraining
    /\ ret' = get_spent_calories(training)
    /\ call' = Method("get_spent_calories")
    /\ UNCHANGED <<training, made, info, text, shown, packages, idx, out, status>>

\* info = training.show_training_info()
ShowTrainingInfo ==
    /\ status = "idle"
    /\ training # NoTraining
    /\ shown < MaxShown
    /\ LET r == show_training_info(training)
       IN  /\ ret' = r
           /\ info' = IF r.err = "none" THEN r.val ELSE info
           /\ shown' = IF r.err = "none" THEN shown + 1 ELSE shown
    /\ call' = Method("show_training_info")
    /\ UNCHANGED <<training, made, text, packages, idx, out, status>>

\* text = info.get_message()
GetMessage ==
    /\ status = "idle"
    /\ info # NoInfo
    /\ text' = get_message(info)
    /\ ret' = Ok(Zero)
    /\ call' = Method("get_message")
    /\ UNCHANGED <<training, made, info, shown, packages, idx, out, status>>

Next ==
    \/ \E c \in Codes, d \in DataLists : ReadPackage(c, d)
    \/ \E d \in DataLists : NewTraining(d)
    \/ GetDistance
    \/ GetMeanSpeed
    \/ GetSpentCalories
    \/ ShowTrainingInfo
    \/ GetMessage

Spec == Init /\ [][Next]_vars

---------------------------------------------------------------------------
(* The __main__ driver: for workout_type, data in packages: read_package,  *)
(* then main.  Nothing catches an exception, so the first one ends the     *)
(* program.                                                                *)

DriverInit ==
    /\ training = NoTraining
    /\ made = NoCall
    /\ call = NoCall
    /\ ret = Ok(Zero)
    /\ info = NoInfo
    /\ text = ""
    /\ shown = 0
    /\ \E n \in 0..MaxPackages : packages \in [1..n -> PackageEntries]
    /\ idx = 1
    /\ out = <<>>
    /\ status = "running"

\* Mutant: the loop catches the exception and goes on with the next entry.
LoopBody_Mut ==
    /\ status = "running"
    /\ idx <= Len(packages)
    /\ call' = [op |-> "read_package", code |-> packages[idx].code,
                data |-> packages[idx].data]
    /\ LET t == read_package(packages[idx].code, packages[idx].data)
       IN  /\ training' = IF t.err = "none" THEN t.val ELSE training
           /\ made' = IF t.err = "none" THEN call' ELSE made
           /\ ret' = IF t.err = "none" THEN main(training') ELSE t
    /\ out' = IF ret'.err = "none" THEN Append(out, ret'.val) ELSE out
    /\ idx' = idx + 1
    /\ UNCHANGED <<info, text, shown, packages, status>>

\* One iteration of the for loop: training = read_package(...), then
\* main(training), which prints one line.  An exception from either leaves
\* the loop and the program.
LoopBody ==
    /\ status = "running"
    /\ idx <= Len(packages)
    /\ call' = [op |-> "read_package", code |-> packages[idx].code,
                data |-> packages[idx].data]
    /\ LET t == read_package(packages[idx].code, packages[idx].data)
       IN  /\ training' = IF t.err = "none" THEN t.val ELSE training
           /\ made' = IF t.err = "none" THEN call' ELSE made
           /\ ret' = IF t.err = "none" THEN main(training') ELSE t
    /\ IF ret'.err = "none"
       THEN /\ out' = Append(out, ret'.val)
            /\ idx' = idx + 1
            /\ status' = status
       ELSE /\ status' = "crashed"
            /\ UNCHANGED <<out, idx>>
    /\ UNCHANGED <<info, text, shown, packages>>

\* The list is exhausted: the program ends normally.
LoopExit ==
    /\ status = "running"
    /\ idx > Len(packages)
    /\ status' = "exit0"
    /\ UNCHANGED <<training, made, call, ret, info, text, shown, packages, idx, out>>

DriverNext == LoopBody \/ LoopExit

DriverSpec == DriverInit /\ [][DriverNext]_vars

---------------------------------------------------------------------------
(* Reference readings.                                                     *)

Recognized == {"SWM", "RUN", "WLK"}

MadeBy(code, ints) == [op |-> "read_package", code |-> code, data |-> Nums(ints)]

\* The state right after show_training_info returned an InfoMessage.
Summarized ==
    /\ call.op = "show_training_info"
    /\ ret.err = "none"

\* C1 as stated: the summary of read_package("RUN", [15000, 1, 75]) renders
\* distance 9.750, mean speed 9.750 and calories 716.963.
C1_RunReferenceAsStated ==
    (made = MadeBy("RUN", <<15000, 1, 75>>) /\ Summarized) =>
        /\ Fmt3(info.distance) = "9.750"
        /\ Fmt3(info.speed) = "9.750"
        /\ Fmt3(info.calories) = "716.963"

\* C1 amended: the summary of read_package("RUN", [15000, 1, 75]) is a Running
\* summary that renders distance 9.750, mean speed 9.750 and calories 699.750,
\* the value of (18 * 9.75 - 20) * 75 / 1000 * 1 * 60.
C1_RunReference ==
    (made = MadeBy("RUN", <<15000, 1, 75>>) /\ Summarized) =>
        /\ info.training_type = "Running"
        /\ info = ret.val
        /\ Fmt3(info.duration) = "1.000"
        /\ Fmt3(info.distance) = "9.750"
        /\ Fmt3(info.speed) = "9.750"
        /\ Fmt3(info.calories) = "699.750"
        /\ info.calories = Rat(69975, 100)

C1_Witness ==
    /\ made = MadeBy("RUN", <<15000, 1, 75>>)
    /\ Summarized
    /\ shown = 1

\* C2 as stated: the summary of read_package("WLK", [9000, 1, 75, 180]) renders
\* distance 5.850, mean speed 5.850 and calories 141.710.
C2_WalkReferenceAsStated ==
    (made = MadeBy("WLK", <<9000, 1, 75, 180>>) /\ Summarized) =>
        /\ Fmt3(info.distance) = "5.850"
        /\ Fmt3(info.speed) = "5.850"
        /\ Fmt3(info.calories) = "141.710"

\* C2 amended: the summary of read_package("WLK", [9000, 1, 75, 180]) is a
\* SportsWalking summary that renders distance 5.850, mean speed 5.850 and
\* calories 157.500: 5.85^2 // 180 is 0, so the calories are 0.035 * 75 * 1 * 60.
C2_WalkReference ==
    (made = MadeBy("WLK", <<9000, 1, 75, 180>>) /\ Summarized) =>
        /\ info.training_type = "SportsWalking"
        /\ info = ret.val
        /\ Fmt3(info.duration) = "1.000"
        /\ Fmt3(info.distance) = "5.850"
        /\ Fmt3(info.speed) = "5.850"
        /\ Fmt3(info.calories) = "157.500"
        /\ info.calories = Rat(1575, 10)

C2_Witness ==
    /\ made = MadeBy("WLK", <<9000, 1, 75, 180>>)
    /\ Summarized
    /\ shown = 1

---------------------------------------------------------------------------
(* The factory.                                                            *)

\* The state right after read_package(call.code, call.data) returned or raised.
Read == call.op = "read_package" /\ status = "idle"

\* C3 as stated: for a code other than SWM, RUN, WLK and data of any length,
\* read_package fails with a "workout type not found" error that identifies
\* the offending code, builds no record, and never fails on the argument count.
C3_UnknownCodeAsStated ==
    (Read /\ call.code \notin Recognized) =>
        /\ ret.err = "ValueError"
        /\ Contains(ret.msg, call.code)
        /\ training = NoTraining

\* C3 amended: for a code other than SWM, RUN, WLK and data of any length,
\* read_package fails with a ValueError whose message is the fixed "workout type
\* not found" text, which does not contain the offending code; no record is
\* built, and the failure is never the argument-count error.
C3_UnknownCode ==
    (Read /\ call.code \notin Recognized) =>
        /\ ret.err = "ValueError"
        /\ ret.err # "TypeError"
        /\ ret.msg = "Zaprashivaemyj tip trenirovki otsutstvuet v BD fitness-trekera"
        /\ ~Contains(ret.msg, call.code)
        /\ training = NoTraining
        /\ made = NoCall

\* An unknown code met with a data list that no constructor would take.
C3_Witness ==
    /\ Read
    /\ call.code = "XYZ"
    /\ Len(call.data) = MaxData
    /\ ret.err = "ValueError"

\* The attributes a code's variant binds, in the order of the data.
C4_Expected(code, data) ==
    IF code = "SWM"
    THEN [cls |-> "Swimming",
          attrs |-> [action |-> data[1], duration |-> data[2], weight |-> data[3],
                     length_pool |-> data[4], count_pool |-> data[5]]]
    ELSE IF code = "RUN"
    THEN [cls |-> "Running",
          attrs |-> [action |-> data[1], duration |-> data[2], weight |-> data[3]]]
    ELSE [cls |-> "SportsWalking",
          attrs |-> [action |-> data[1], duration |-> data[2], weight |-> data[3],
                     height |-> data[4]]]

C4_Arity(code) == IF code = "SWM" THEN 5 ELSE IF code = "RUN" THEN 3 ELSE 4

\* C4: read_package maps SWM, RUN, WLK to Swimming, Running, SportsWalking and
\* binds the data positionally: 5 values to (action, duration, weight,
\* length_pool, count_pool), 3 to (action, duration, weight), 4 to (action,
\* duration, weight, height); the variant depends only on the code.
C4_PositionalBinding ==
    (Read /\ call.code \in Recognized /\ Len(call.data) = C4_Arity(call.code)) =>
        /\ ret.err = "none"
        /\ ret.val = training
        /\ training = C4_Expected(call.code, call.data)
        /\ DOMAIN training.attrs =
               DOMAIN C4_Expected(call.code, call.data).attrs
        /\ made = call

\* A Swimming record built from five values that differ position by position.
C4_Witness ==
    /\ Read
    /\ call.code = "SWM"
    /\ call.data = Nums(<<9000, 1, 80, 25, 40>>)
    /\ training.cls = "Swimming"
    /\ training.attrs.length_pool = Num(25)
    /\ training.attrs.count_pool = Num(40)

\* C5: for SWM, RUN, WLK, read_package with a data list whose length differs
\* from the variant's count (5, 3, 4), shorter or longer, fails with the
\* argument-count error (TypeError) and returns no record; it succeeds exactly
\* when the length matches.
C5_ArgumentCount ==
    (Read /\ call.code \in Recognized) =>
        /\ (ret.err = "none") <=> (Len(call.data) = C4_Arity(call.code))
        /\ (Len(call.data) # C4_Arity(call.code)) =>
               /\ ret.err = "TypeError"
               /\ training = NoTraining
               /\ made = NoCall

\* One value too many for Running.
C5_Witness ==
    /\ Read
    /\ call.code = "RUN"
    /\ Len(call.data) = 4
    /\ ret.err = "TypeError"

---------------------------------------------------------------------------
(* The formulas of the variants.                                           *)

\* The state right after method op was called on training.
Called(op) == call.op = op /\ training # NoTraining /\ status = "idle"

\* C6: with a nonzero duration, get_mean_speed of a Running or SportsWalking
\* record is get_distance() / duration with distance = action * 0.65 / 1000;
\* that of a Swimming record is length_pool * count_pool / 1000 / duration,
\* whatever the action and the swimming distance action * 1.38 / 1000 are.
C6_MeanSpeed ==
    (Called("get_mean_speed") /\ training.attrs.duration # Zero) =>
        /\ ret.err = "none"
        /\ training.cls \in {"Running", "SportsWalking"} =>
               /\ ret.val = Div(get_distance(training).val, training.attrs.duration)
               /\ ret.val = Div(Div(Mul(training.attrs.action, Rat(65, 100)),
                                    Num(1000)),
                                training.attrs.duration)
        /\ training.cls = "Swimming" =>
               /\ ret.val = Div(Div(Mul(training.attrs.length_pool,
                                        training.attrs.count_pool),
                                    Num(1000)),
                                training.attrs.duration)
               /\ get_distance(training).val =
                      Div(Mul(training.attrs.action, Rat(138, 100)), Num(1000))
               /\ \A a \in DataVals(1) :
                      get_mean_speed([training EXCEPT !.attrs.action = a]) = ret

\* A Swimming record whose mean speed differs from distance / duration.
C6_Witness ==
    /\ Called("get_mean_speed")
    /\ training.cls = "Swimming"
    /\ training.attrs.duration # Zero
    /\ ret.err = "none"
    /\ ret.val # Div(get_distance(training).val, training.attrs.duration)

C9_Constructed ==
    [cls |-> IF made.op = "Training" THEN "Training"
             ELSE C4_Expected(made.code, made.data).cls,
     attrs |-> IF made.op = "Training"
               THEN [action |-> made.data[1], duration |-> made.data[2],
                     weight |-> made.data[3]]
               ELSE C4_Expected(made.code, made.data).attrs]

\* C9: calls of get_distance, get_mean_speed, get_spent_calories and
\* show_training_info, in any order, leave every attribute of the record as
\* construction set it, and a later show_training_info on the same record
\* returns an InfoMessage equal to the earlier one, with the same rendered text.
C9_Pure ==
    /\ [](training # NoTraining => training = C9_Constructed)
    /\ [][training # NoTraining => training' = training]_vars
    /\ [][(shown >= 1 /\ call'.op = "show_training_info") =>
              /\ ret'.err = "none"
              /\ info' = info
              /\ get_message(info') = get_message(info)]_vars
    /\ [][(text # "" /\ call'.op = "get_message") => text' = text]_vars

\* A second summary of a Swimming record, rendered after the first was.
C9_Witness ==
    /\ shown = 2
    /\ text # ""
    /\ Called("show_training_info")
    /\ training.cls = "Swimming"
    /\ training.attrs.action # Zero

\* The mean speed of a walking record, from its attributes.
C10_Speed == Div(Div(Mul(training.attrs.action, Rat(65, 100)), Num(1000)),
                 training.attrs.duration)

\* floor(meanSpeed^2 / height), by integer division of the exact quotient.
C10_Floor ==
    LET q == Div(Mul(C10_Speed, C10_Speed), training.attrs.height)
    IN  q[1] \div q[2]

\* C10: for a SportsWalking record with duration > 0 and height > 0,
\* get_spent_calories is (0.035 * weight + floor(meanSpeed^2 / height) * 0.029
\* * weight) * duration * 60; when meanSpeed^2 < height it is 0.035 * weight *
\* duration * 60, whatever the action.
C10_FloorDivision ==
    (/\ Called("get_spent_calories")
     /\ training.cls = "SportsWalking"
     /\ Less(Zero, training.attrs.duration)
     /\ Less(Zero, training.attrs.height)) =>
        /\ ret.err = "none"
        /\ ret.val = Mul(Mul(Add(Mul(Rat(35, 1000), training.attrs.weight),
                                 Mul(Mul(Num(C10_Floor), Rat(29, 1000)),
                                     training.attrs.weight)),
                             training.attrs.duration),
                         Num(60))
        /\ Less(Mul(C10_Speed, C10_Speed), training.attrs.height) =>
               ret.val = Mul(Mul(Mul(Rat(35, 1000), training.attrs.weight),
                                 training.attrs.duration),
                             Num(60))

\* A walk whose squared speed is above the height and not a multiple of it:
\* floor and true division differ.
C10_Witness ==
    /\ Called("get_spent_calories")
    /\ training.cls = "SportsWalking"
    /\ Less(Zero, training.attrs.duration)
    /\ Less(Zero, training.attrs.height)
    /\ ret.err = "none"
    /\ C10_Floor >= 1
    /\ Num(C10_Floor) # Div(Mul(C10_Speed, C10_Speed), training.attrs.height)

\* A walk whose squared speed is below the height although it moved.
C10_SlowWitness ==
    /\ Called("get_spent_calories")
    /\ training.cls = "SportsWalking"
    /\ Less(Zero, training.attrs.duration)
    /\ training.attrs.action # Zero
    /\ Less(Mul(C10_Speed, C10_Speed), training.attrs.height)

---------------------------------------------------------------------------
(* The driver.                                                             *)

\* Whether constructing or summarizing entry p raises.
C7_Fails(p) ==
    LET t == read_package(p.code, p.data)
    IN  IF t.err # "none" THEN TRUE ELSE show_training_info(t.val).err # "none"

\* The rendering of entry p, an entry that does not fail.
C7_Line(p) ==
    get_message(show_training_info(read_package(p.code, p.data).val).val)

\* The position of the first failing entry, Len(packages) + 1 when none fails.
C7_FirstFailing ==
    LET failing == {i \in 1..Len(packages) : C7_Fails(packages[i])}
    IN  IF failing = {} THEN Len(packages) + 1
        ELSE CHOOSE i \in failing : \A j \in failing : i <= j

C7_SampleOutput ==
    <<"Tip trenirovki: Swimming; Dlitelnost: 1.000 ch.; Distanciya: 0.994 km; "
          \o "Sr. skorost: 1.000 km/ch; Potracheno kkal: 336.000.",
      "Tip trenirovki: Running; Dlitelnost: 1.000 ch.; Distanciya: 9.750 km; "
          \o "Sr. skorost: 9.750 km/ch; Potracheno kkal: 699.750.",
      "Tip trenirovki: SportsWalking; Dlitelnost: 1.000 ch.; Distanciya: 5.850 km; "
          \o "Sr. skorost: 5.850 km/ch; Potracheno kkal: 157.500.">>

C7_Printed ==
    /\ Len(out) = idx - 1
    /\ idx <= C7_FirstFailing
    /\ \A i \in 1..Len(out) : out[i] = C7_Line(packages[i])
    /\ status = "crashed" =>
           /\ idx = C7_FirstFailing
           /\ idx <= Len(packages)
           /\ ret.err # "none"
    /\ status = "exit0" =>
           /\ idx = Len(packages) + 1
           /\ C7_FirstFailing = Len(packages) + 1
    /\ (status = "exit0" /\ packages = SamplePackages) => out = C7_SampleOutput

\* C7: the driver takes the entries in input order and prints one line per
\* entry processed, line i being the rendering of entry i; an exception is not
\* caught or retried, so the printed lines are those of the entries before the
\* first failing one and nothing is printed for it or after it.
C7_DriverOrder ==
    /\ []C7_Printed
    /\ [][\/ out' = out
          \/ /\ out' = Append(out, C7_Line(packages[idx]))
             /\ idx' = idx + 1]_vars
    /\ [][status # "running" => UNCHANGED <<out, idx, status, packages>>]_vars

\* The program left by an exception after printing, with entries still unread.
C7_Witness ==
    /\ status = "crashed"
    /\ Len(out) >= 1
    /\ idx < Len(packages)

====
